---- MODULE Spec2Model ----
(***************************************************************************)
(* Model of fwilliamsca::memory::SPSCRingBuffer<T, Capacity>               *)
(* (include/fwilliamsca/memory/ring_buffer.h) and of the producer/consumer *)
(* driver bench_ring_buffer (tests/benchmark_main.cpp).                    *)
(*                                                                         *)
(* Every atomic load, atomic store, placement-new, move-assignment and     *)
(* destructor call of try_push / try_pop is one step, so that the steps of *)
(* the producer thread and of the consumer thread interleave freely.       *)
(***************************************************************************)
EXTENDS Integers, Sequences, FiniteSets, TLC

(* ---------------------------------------------------------------------- *)
(* Bounds                                                                  *)
(* ---------------------------------------------------------------------- *)
CapacityLog2 == 2      \* Capacity = 2^CapacityLog2 (template argument)
NumItems     == 2      \* number of distinct item values pushed
MaxPushes    == 5      \* accepted pushes per run (> Capacity: cursors wrap)
BenchM       == 5      \* loop bound of the benchmark producer (1000000)
MaxCapacityArg == 64   \* largest template argument given to the static_assert
MaxMaskLog2  == 5      \* the mask identity is checked for N = 2^0 .. 2^MaxMaskLog2
TwoMaxPushes == 2      \* pushes accepted or in progress when two threads call try_push

RECURSIVE Pow2(_)
Pow2(k) == IF k = 0 THEN 1 ELSE 2 * Pow2(k - 1)

Capacity == Pow2(CapacityLog2)


Items  == 0 .. (NumItems - 1)
NoVal  == -1
Values == Items \cup (0 .. (BenchM - 1))
Slots  == 0 .. (Capacity - 1)

(* ---------------------------------------------------------------------- *)
(* Bitwise AND on naturals, as computed by the & operator on size_t.       *)
(* ---------------------------------------------------------------------- *)
RECURSIVE BitAnd(_, _)
BitAnd(a, b) ==
    IF a = 0 \/ b = 0 THEN 0
    ELSE (a % 2) * (b % 2) + 2 * BitAnd(a \div 2, b \div 2)

\* variant: the mask Capacity - 1 is used as a modulus
NextIndex_ModMask(c) == (c + 1) % (Capacity - 1)

\* (c + 1) & (Capacity - 1)
NextIndex(c) == BitAnd(c + 1, Capacity - 1)

VARIABLES
    head_,          \* std::atomic<size_t> head_  (consumer owns)
    tail_,          \* std::atomic<size_t> tail_  (producer owns)
    buffer_,        \* T* buffer_ : slot -> [st, val]
    freed,          \* buffer memory released by the destructor
    pPc,            \* producer: position inside try_push
    item,           \* try_push argument
    itemMoved,      \* the caller's item has been moved from
    current_tail,   \* try_push local
    next_tail,      \* try_push local
    pRet,           \* last value returned by try_push
    pSteps,         \* steps executed by the current try_push call
    cPc,            \* consumer: position inside try_pop
    current_head,   \* try_pop local
    out_item,       \* try_pop out parameter
    cRet,           \* last value returned by try_pop
    cSteps,         \* steps executed by the current try_pop call
    pushed,         \* history: items accepted by try_push (returned true)
    popped,         \* history: items delivered by try_pop (returned true)
    callLog,        \* history: shape of the last calls
    done,           \* bench_ring_buffer: std::atomic<bool> done
    bi,             \* bench_ring_buffer: producer loop variable i
    benchP,         \* bench_ring_buffer: producer (main thread) position
    benchC,         \* bench_ring_buffer: consumer thread position
    prefetched,     \* slot index last passed to __builtin_prefetch
    capN,           \* template argument Capacity given to the static_assert
    capResult,      \* outcome of the static_assert on capN
    prod2,          \* a second thread calling try_push: its position, locals
    sameTailLoaded  \* history: two try_push calls loaded the same tail_

chanVars  == <<head_, tail_, buffer_, freed>>
prodVars  == <<pPc, item, itemMoved, current_tail, next_tail, pRet, pSteps>>
consVars  == <<cPc, current_head, out_item, cRet, cSteps>>
histVars  == <<pushed, popped, callLog>>
benchVars == <<done, bi, benchP, benchC>>
hintVars   == <<prefetched>>
capVars    == <<capN, capResult>>
misuseVars == <<prod2, sameTailLoaded>>
extVars    == <<hintVars, capVars, misuseVars>>
vars == <<chanVars, prodVars, consVars, histVars, benchVars, extVars>>

StepCap == 8   \* step counters saturate here

Bump(n) == IF n < StepCap THEN n + 1 ELSE n

RawSlot == [st |-> "raw", val |-> NoVal]

\* slots holding a constructed, not yet destructed element
LiveSlots == {i \in Slots : buffer_[i].st # "raw"}

(* ---------------------------------------------------------------------- *)
(* Construction                                                            *)
(* ---------------------------------------------------------------------- *)
\* static_assert((Capacity != 0) && ((Capacity & (Capacity - 1)) == 0))
CapacityAccepted(n) == (n # 0) /\ (BitAnd(n, n - 1) = 0)

StaticAssertResult(n) == IF CapacityAccepted(n) THEN "accepted" ELSE "rejected"

Prod2Idle ==
    [pc |-> "idle", item |-> NoVal, current_tail |-> 0, next_tail |-> 0,
     ret |-> FALSE]

InitChannel ==
    /\ head_ = 0
    /\ tail_ = 0
    /\ buffer_ = [i \in Slots |-> RawSlot]
    /\ freed = FALSE
    /\ pPc = "idle"
    /\ item = NoVal
    /\ itemMoved = FALSE
    /\ current_tail = 0
    /\ next_tail = 0
    /\ pRet = FALSE
    /\ pSteps = 0
    /\ cPc = "idle"
    /\ current_head = 0
    /\ out_item = NoVal
    /\ cRet = FALSE
    /\ cSteps = 0
    /\ pushed = <<>>
    /\ popped = <<>>
    /\ callLog = "none"
    /\ done = FALSE
    /\ bi = 0
    /\ benchP = "l73"
    /\ benchC = "l62"
    /\ prefetched = NoVal
    /\ prod2 = Prod2Idle
    /\ sameTailLoaded = FALSE

\* a channel exists only for a Capacity the static_assert lets through
Init ==
    /\ InitChannel
    /\ capN = Capacity
    /\ capResult = StaticAssertResult(Capacity)

(* ---------------------------------------------------------------------- *)
(* try_push                                                                *)
(* ---------------------------------------------------------------------- *)
\* entry with argument x; current_tail = tail_.load(relaxed); next_tail
try_push_load_tail(x) ==
    /\ pPc = "idle"
    /\ ~freed
    /\ item' = x
    /\ itemMoved' = FALSE
    /\ current_tail' = tail_
    /\ next_tail' = NextIndex(tail_)
    /\ pSteps' = 1
    /\ pPc' = "check_full"
    /\ callLog' = IF head_ = tail_ /\ cPc = "idle"
                  THEN "push_on_empty" ELSE "push"
    /\ UNCHANGED <<pRet, pushed, popped>>
    /\ UNCHANGED <<chanVars, consVars>>
    /\ sameTailLoaded' =
          (sameTailLoaded \/ (prod2.pc # "idle" /\ prod2.current_tail = tail_))
    /\ UNCHANGED <<hintVars, capVars, prod2>>

\* variant: the fullness test is missing
try_push_check_full_Never ==
    /\ pPc = "check_full"
    /\ pSteps' = Bump(pSteps)
    /\ pPc' = "construct"
    /\ UNCHANGED <<item, itemMoved, current_tail, next_tail, pRet>>
    /\ UNCHANGED <<chanVars, consVars, histVars, benchVars>>
    /\ UNCHANGED extVars

\* variant: the element is constructed before the fullness test
try_push_check_full_ConstructFirst ==
    /\ pPc = "check_full"
    /\ pSteps' = Bump(pSteps)
    /\ buffer_' = [buffer_ EXCEPT ![current_tail] =
                       [st |-> "constructed", val |-> item]]
    /\ itemMoved' = TRUE
    /\ IF next_tail = head_
       THEN /\ pPc' = "idle"
            /\ pRet' = FALSE
       ELSE /\ pPc' = "store_tail"
            /\ UNCHANGED pRet
    /\ UNCHANGED <<head_, tail_, freed>>
    /\ UNCHANGED <<item, current_tail, next_tail>>
    /\ UNCHANGED <<consVars, histVars, benchVars>>
    /\ UNCHANGED extVars

\* variant: a full buffer makes try_push re-read head_ until there is room
try_push_check_full_Spin ==
    /\ pPc = "check_full"
    /\ pSteps' = Bump(pSteps)
    /\ pPc' = IF next_tail = head_ THEN "check_full" ELSE "construct"
    /\ UNCHANGED <<item, itemMoved, current_tail, next_tail, pRet>>
    /\ UNCHANGED <<chanVars, consVars, histVars, benchVars>>
    /\ UNCHANGED extVars

\* variant: a full buffer makes try_push drop the oldest element
try_push_check_full_DropOldest ==
    /\ pPc = "check_full"
    /\ pSteps' = Bump(pSteps)
    /\ pPc' = "construct"
    /\ head_' = IF next_tail = head_ THEN NextIndex(head_) ELSE head_
    /\ UNCHANGED <<tail_, buffer_, freed>>
    /\ UNCHANGED <<item, itemMoved, current_tail, next_tail, pRet>>
    /\ UNCHANGED <<consVars, histVars, benchVars>>
    /\ UNCHANGED extVars

\* variant: the fullness test keeps two slots in reserve
try_push_check_full_TwoReserved ==
    /\ pPc = "check_full"
    /\ pSteps' = Bump(pSteps)
    /\ IF next_tail = head_ \/ NextIndex(next_tail) = head_
       THEN /\ pPc' = "idle"
            /\ pRet' = FALSE
       ELSE /\ pPc' = "construct"
            /\ UNCHANGED pRet
    /\ UNCHANGED <<item, itemMoved, current_tail, next_tail>>
    /\ UNCHANGED <<chanVars, consVars, histVars, benchVars>>
    /\ UNCHANGED extVars

\* variant: the fullness test compares current_tail with head_
try_push_check_full_CurrentTail ==
    /\ pPc = "check_full"
    /\ pSteps' = Bump(pSteps)
    /\ IF current_tail = head_
       THEN /\ pPc' = "idle"
            /\ pRet' = FALSE
       ELSE /\ pPc' = "construct"
            /\ UNCHANGED pRet
    /\ UNCHANGED <<item, itemMoved, current_tail, next_tail>>
    /\ UNCHANGED <<chanVars, consVars, histVars, benchVars>>
    /\ UNCHANGED extVars

\* if (next_tail == head_.load(acquire)) return false;
try_push_check_full ==
    /\ pPc = "check_full"
    /\ pSteps' = Bump(pSteps)
    /\ IF next_tail = head_
       THEN /\ pPc' = "idle"
            /\ pRet' = FALSE
       ELSE /\ pPc' = "construct"
            /\ UNCHANGED pRet
    /\ UNCHANGED <<item, itemMoved, current_tail, next_tail>>
    /\ UNCHANGED <<chanVars, consVars, histVars, benchVars>>
    /\ UNCHANGED extVars

\* variant: the slot is published without having been constructed
try_push_construct_Skip ==
    /\ pPc = "construct"
    /\ pSteps' = Bump(pSteps)
    /\ pPc' = "store_tail"
    /\ UNCHANGED <<item, itemMoved, current_tail, next_tail, pRet>>
    /\ UNCHANGED <<chanVars, consVars, histVars, benchVars>>
    /\ UNCHANGED extVars

\* new (&buffer_[current_tail]) T(std::forward<U>(item));
try_push_construct ==
    /\ pPc = "construct"
    /\ pSteps' = Bump(pSteps)
    /\ buffer_' = [buffer_ EXCEPT ![current_tail] =
                       [st |-> "constructed", val |-> item]]
    /\ itemMoved' = TRUE
    /\ pPc' = "store_tail"
    /\ UNCHANGED <<head_, tail_, freed>>
    /\ UNCHANGED <<item, current_tail, next_tail, pRet>>
    /\ UNCHANGED <<consVars, histVars, benchVars>>
    /\ UNCHANGED extVars

\* variant: tail_ is advanced past the slot after the one constructed
try_push_store_tail_SkipOne ==
    /\ pPc = "store_tail"
    /\ pSteps' = Bump(pSteps)
    /\ tail_' = NextIndex(next_tail)
    /\ pRet' = TRUE
    /\ pPc' = "idle"
    /\ pushed' = Append(pushed, item)
    /\ UNCHANGED <<head_, buffer_, freed>>
    /\ UNCHANGED <<item, itemMoved, current_tail, next_tail>>
    /\ UNCHANGED <<popped, callLog>>
    /\ UNCHANGED <<consVars, benchVars>>
    /\ UNCHANGED extVars

\* tail_.store(next_tail, release); return true;
try_push_store_tail ==
    /\ pPc = "store_tail"
    /\ pSteps' = Bump(pSteps)
    /\ tail_' = next_tail
    /\ pRet' = TRUE
    /\ pPc' = "idle"
    /\ pushed' = Append(pushed, item)
    /\ UNCHANGED <<head_, buffer_, freed>>
    /\ UNCHANGED <<item, itemMoved, current_tail, next_tail>>
    /\ UNCHANGED <<popped, callLog>>
    /\ UNCHANGED <<consVars, benchVars>>
    /\ UNCHANGED extVars

(* ---------------------------------------------------------------------- *)
(* try_pop                                                                 *)
(* ---------------------------------------------------------------------- *)
\* entry; current_head = head_.load(relaxed)
try_pop_load_head ==
    /\ cPc = "idle"
    /\ ~freed
    /\ current_head' = head_
    /\ cSteps' = 1
    /\ cPc' = "check_empty"
    /\ callLog' = IF callLog = "push_on_empty" /\ pPc = "idle"
                  THEN "pop_after_push_on_empty" ELSE "pop"
    /\ UNCHANGED <<out_item, cRet, pushed, popped>>
    /\ UNCHANGED <<chanVars, prodVars>>
    /\ UNCHANGED extVars

\* variant: an empty buffer resets the caller's out_item
try_pop_check_empty_ClobberOut ==
    /\ cPc = "check_empty"
    /\ cSteps' = Bump(cSteps)
    /\ IF current_head = tail_
       THEN /\ cPc' = "idle"
            /\ cRet' = FALSE
            /\ out_item' = NoVal
       ELSE /\ cPc' = "move"
            /\ UNCHANGED <<cRet, out_item>>
    /\ UNCHANGED current_head
    /\ UNCHANGED <<chanVars, prodVars, histVars, benchVars>>
    /\ UNCHANGED extVars

\* variant: the emptiness test compares the next head with tail_
try_pop_check_empty_OffByOne ==
    /\ cPc = "check_empty"
    /\ cSteps' = Bump(cSteps)
    /\ IF NextIndex(current_head) = tail_
       THEN /\ cPc' = "idle"
            /\ cRet' = FALSE
       ELSE /\ cPc' = "move"
            /\ UNCHANGED cRet
    /\ UNCHANGED <<current_head, out_item>>
    /\ UNCHANGED <<chanVars, prodVars, histVars, benchVars>>
    /\ UNCHANGED extVars

\* variant: the emptiness test is missing
try_pop_check_empty_Never ==
    /\ cPc = "check_empty"
    /\ cSteps' = Bump(cSteps)
    /\ cPc' = "move"
    /\ UNCHANGED <<current_head, out_item, cRet>>
    /\ UNCHANGED <<chanVars, prodVars, histVars, benchVars>>
    /\ UNCHANGED extVars

\* if (current_head == tail_.load(acquire)) return false;
try_pop_check_empty ==
    /\ cPc = "check_empty"
    /\ cSteps' = Bump(cSteps)
    /\ IF current_head = tail_
       THEN /\ cPc' = "idle"
            /\ cRet' = FALSE
       ELSE /\ cPc' = "move"
            /\ UNCHANGED cRet
    /\ UNCHANGED <<current_head, out_item>>
    /\ UNCHANGED <<chanVars, prodVars, histVars, benchVars>>
    /\ UNCHANGED extVars

\* variant: the element is moved out of the slot after current_head
try_pop_move_WrongSlot ==
    /\ cPc = "move"
    /\ cSteps' = Bump(cSteps)
    /\ IF buffer_[NextIndex(current_head)].st = "raw"
       THEN /\ out_item' \in Values
            /\ UNCHANGED buffer_
       ELSE /\ out_item' = buffer_[NextIndex(current_head)].val
            /\ buffer_' =
                  [buffer_ EXCEPT ![NextIndex(current_head)].st = "moved"]
    /\ cPc' = "destruct"
    /\ UNCHANGED <<head_, tail_, freed>>
    /\ UNCHANGED <<current_head, cRet>>
    /\ UNCHANGED <<prodVars, histVars, benchVars>>
    /\ UNCHANGED extVars

\* out_item = std::move(buffer_[current_head]);
\* a slot that holds no constructed element yields an indeterminate value
try_pop_move ==
    /\ cPc = "move"
    /\ cSteps' = Bump(cSteps)
    /\ IF buffer_[current_head].st = "raw"
       THEN /\ out_item' \in Values
            /\ UNCHANGED buffer_
       ELSE /\ out_item' = buffer_[current_head].val
            /\ buffer_' = [buffer_ EXCEPT ![current_head].st = "moved"]
    /\ cPc' = "destruct"
    /\ UNCHANGED <<head_, tail_, freed>>
    /\ UNCHANGED <<current_head, cRet>>
    /\ UNCHANGED <<prodVars, histVars, benchVars>>
    /\ UNCHANGED extVars

\* variant: the element moved out is not destructed
try_pop_destruct_Skip ==
    /\ cPc = "destruct"
    /\ cSteps' = Bump(cSteps)
    /\ cPc' = "store_head"
    /\ UNCHANGED <<current_head, out_item, cRet>>
    /\ UNCHANGED <<chanVars, prodVars, histVars, benchVars>>
    /\ UNCHANGED extVars

\* buffer_[current_head].~T();
try_pop_destruct ==
    /\ cPc = "destruct"
    /\ cSteps' = Bump(cSteps)
    /\ buffer_' = [buffer_ EXCEPT ![current_head] = RawSlot]
    /\ cPc' = "store_head"
    /\ UNCHANGED <<head_, tail_, freed>>
    /\ UNCHANGED <<current_head, out_item, cRet>>
    /\ UNCHANGED <<prodVars, histVars, benchVars>>
    /\ UNCHANGED extVars

\* variant: head_ is stored without having been advanced
try_pop_store_head_NoAdvance ==
    /\ cPc = "store_head"
    /\ cSteps' = Bump(cSteps)
    /\ head_' = current_head
    /\ cRet' = TRUE
    /\ cPc' = "idle"
    /\ popped' = Append(popped, out_item)
    /\ UNCHANGED <<tail_, buffer_, freed>>
    /\ UNCHANGED <<current_head, out_item>>
    /\ UNCHANGED <<pushed, callLog>>
    /\ UNCHANGED <<prodVars, benchVars>>
    /\ UNCHANGED extVars

\* next_head = (current_head + 1) & (Capacity - 1);
\* head_.store(next_head, release); return true;
try_pop_store_head ==
    /\ cPc = "store_head"
    /\ cSteps' = Bump(cSteps)
    /\ head_' = NextIndex(current_head)
    /\ cRet' = TRUE
    /\ cPc' = "idle"
    /\ popped' = Append(popped, out_item)
    /\ UNCHANGED <<tail_, buffer_, freed>>
    /\ UNCHANGED <<current_head, out_item>>
    /\ UNCHANGED <<pushed, callLog>>
    /\ UNCHANGED <<prodVars, benchVars>>
    /\ UNCHANGED extVars

(* ---------------------------------------------------------------------- *)
(* prefetch_next                                                           *)
(* ---------------------------------------------------------------------- *)
\* variant: the computed index is stored into head_
prefetch_next_StoreHead ==
    /\ ~freed
    /\ prefetched' = NextIndex(head_)
    /\ head_' = NextIndex(head_)
    /\ UNCHANGED <<tail_, buffer_, freed>>
    /\ UNCHANGED <<prodVars, consVars, histVars, benchVars>>
    /\ UNCHANGED <<capVars, misuseVars>>

\* next = (head_.load(relaxed) + 1) & (Capacity - 1);
\* __builtin_prefetch(&buffer_[next], 0, 3);
prefetch_next ==
    /\ ~freed
    /\ prefetched' = NextIndex(head_)
    /\ UNCHANGED <<chanVars, prodVars, consVars, histVars, benchVars>>
    /\ UNCHANGED <<capVars, misuseVars>>

(* ---------------------------------------------------------------------- *)
(* ~SPSCRingBuffer: free(buffer_); run once no thread is inside a call     *)
(* ---------------------------------------------------------------------- *)
Destructor ==
    /\ ~freed
    /\ pPc = "idle"
    /\ cPc = "idle"
    /\ freed' = TRUE
    /\ UNCHANGED <<head_, tail_, buffer_>>
    /\ UNCHANGED <<prodVars, consVars, histVars, benchVars>>
    /\ UNCHANGED extVars

(* ---------------------------------------------------------------------- *)
(* One producer thread and one consumer thread, arbitrary calls            *)
(* ---------------------------------------------------------------------- *)
Push ==
    /\ Len(pushed) < MaxPushes
    /\ \E x \in Items : try_push_load_tail(x)
    /\ UNCHANGED benchVars

Pop ==
    /\ try_pop_load_head
    /\ UNCHANGED benchVars

ProducerStep ==
    \/ try_push_check_full
    \/ try_push_construct
    \/ try_push_store_tail

ConsumerStep ==
    \/ try_pop_check_empty
    \/ try_pop_move
    \/ try_pop_destruct
    \/ try_pop_store_head

Teardown ==
    /\ Destructor

Next ==
    \/ Push
    \/ Pop
    \/ ProducerStep
    \/ ConsumerStep
    \/ Teardown

Spec == Init /\ [][Next]_vars

(* ---------------------------------------------------------------------- *)
(* The two threads, with prefetch_next called at any point                 *)
(* ---------------------------------------------------------------------- *)
NextHint ==
    \/ Push
    \/ Pop
    \/ ProducerStep
    \/ ConsumerStep
    \/ prefetch_next

SpecHint == Init /\ [][NextHint]_vars

(* ---------------------------------------------------------------------- *)
(* The same calls issued from a single thread: a call starts only when no  *)
(* other call is in progress                                               *)
(* ---------------------------------------------------------------------- *)
SeqPush ==
    /\ cPc = "idle"
    /\ Push

SeqPop ==
    /\ pPc = "idle"
    /\ Pop

NextSeq ==
    \/ SeqPush
    \/ SeqPop
    \/ ProducerStep
    \/ ConsumerStep

SpecSeq == Init /\ [][NextSeq]_vars

(* ---------------------------------------------------------------------- *)
(* Instantiation SPSCRingBuffer<T, n> for an arbitrary n: the static_assert *)
(* ---------------------------------------------------------------------- *)
InitCap ==
    /\ InitChannel
    /\ capN \in 0 .. MaxCapacityArg
    /\ capResult = "unchecked"

static_assert_Capacity ==
    /\ capResult = "unchecked"
    /\ capResult' = StaticAssertResult(capN)
    /\ UNCHANGED capN
    /\ UNCHANGED <<chanVars, prodVars, consVars, histVars, benchVars>>
    /\ UNCHANGED <<hintVars, misuseVars>>

NextCap ==
    \/ static_assert_Capacity

SpecCap == InitCap /\ [][NextCap]_vars

(* ---------------------------------------------------------------------- *)
(* bench_ring_buffer (tests/benchmark_main.cpp)                            *)
(* ---------------------------------------------------------------------- *)
\* for (int i = 0; i < 1000000; ++i)
BenchFor ==
    /\ benchP = "l73"
    /\ benchP' = IF bi < BenchM THEN "l74" ELSE "l79"
    /\ UNCHANGED <<done, bi, benchC>>
    /\ UNCHANGED <<chanVars, prodVars, consVars, histVars>>
    /\ UNCHANGED extVars

\* while (!ring.try_push(i))
BenchPush ==
    /\ benchP = "l74"
    /\ try_push_load_tail(bi)
    /\ benchP' = "l74_ret"
    /\ UNCHANGED <<done, bi, benchC>>

\* try_push returned: _mm_pause() and retry, or ++i
BenchPushRet ==
    /\ benchP = "l74_ret"
    /\ pPc = "idle"
    /\ IF pRet
       THEN /\ bi' = bi + 1
            /\ benchP' = "l73"
       ELSE /\ benchP' = "l74"
            /\ UNCHANGED bi
    /\ UNCHANGED <<done, benchC>>
    /\ UNCHANGED <<chanVars, prodVars, consVars, histVars>>
    /\ UNCHANGED extVars

\* done.store(true);
BenchStoreDone ==
    /\ benchP = "l79"
    /\ done' = TRUE
    /\ benchP' = "l80"
    /\ UNCHANGED <<bi, benchC>>
    /\ UNCHANGED <<chanVars, prodVars, consVars, histVars>>
    /\ UNCHANGED extVars

\* consumer.join();
BenchJoin ==
    /\ benchP = "l80"
    /\ benchC = "exited"
    /\ benchP' = "joined"
    /\ UNCHANGED <<done, bi, benchC>>
    /\ UNCHANGED <<chanVars, prodVars, consVars, histVars>>
    /\ UNCHANGED extVars

\* ring goes out of scope at the end of bench_ring_buffer
BenchTeardown ==
    /\ benchP = "joined"
    /\ Destructor

\* while (!done.load(relaxed))
BenchLoadDone ==
    /\ benchC = "l62"
    /\ benchC' = IF done THEN "exited" ELSE "l63"
    /\ UNCHANGED <<done, bi, benchP>>
    /\ UNCHANGED <<chanVars, prodVars, consVars, histVars>>
    /\ UNCHANGED extVars

\* while (ring.try_pop(val))
BenchPop ==
    /\ benchC = "l63"
    /\ try_pop_load_head
    /\ benchC' = "l63_ret"
    /\ UNCHANGED <<done, bi, benchP>>

\* try_pop returned: pop again, or yield() and re-test done
BenchPopRet ==
    /\ benchC = "l63_ret"
    /\ cPc = "idle"
    /\ benchC' = IF cRet THEN "l63" ELSE "l62"
    /\ UNCHANGED <<done, bi, benchP>>
    /\ UNCHANGED <<chanVars, prodVars, consVars, histVars>>
    /\ UNCHANGED extVars

NextBench ==
    \/ BenchFor
    \/ BenchPush
    \/ BenchPushRet
    \/ BenchStoreDone
    \/ BenchJoin
    \/ BenchTeardown
    \/ BenchLoadDone
    \/ BenchPop
    \/ BenchPopRet
    \/ ProducerStep
    \/ ConsumerStep

SpecBench == Init /\ [][NextBench]_vars

(* ---------------------------------------------------------------------- *)
(* Busy-polling: the producer loop of bench_ring_buffer (each item retried *)
(* until try_push returns true) against a consumer that keeps calling      *)
(* try_pop, both threads scheduled fairly                                  *)
(* ---------------------------------------------------------------------- *)
PollProducer ==
    \/ BenchFor
    \/ BenchPush
    \/ BenchPushRet
    \/ ProducerStep

PollConsumer ==
    \/ Pop
    \/ ConsumerStep

NextPoll ==
    \/ PollProducer
    \/ PollConsumer

SpecPoll ==
    /\ Init
    /\ [][NextPoll]_vars
    /\ WF_vars(PollProducer)
    /\ WF_vars(PollConsumer)

(* ---------------------------------------------------------------------- *)
(* Misuse: a second thread calls try_push on the same channel.  Its steps  *)
(* are those of try_push, on its own locals (prod2).                       *)
(* ---------------------------------------------------------------------- *)
\* entry with argument x; current_tail = tail_.load(relaxed); next_tail
try_push2_load_tail(x) ==
    /\ prod2.pc = "idle"
    /\ ~freed
    /\ prod2' = [pc |-> "check_full", item |-> x, current_tail |-> tail_,
                 next_tail |-> NextIndex(tail_), ret |-> prod2.ret]
    /\ sameTailLoaded' =
          (sameTailLoaded \/ (pPc # "idle" /\ current_tail = tail_))
    /\ UNCHANGED <<chanVars, prodVars, consVars, histVars, benchVars>>
    /\ UNCHANGED <<hintVars, capVars>>

\* if (next_tail == head_.load(acquire)) return false;
try_push2_check_full ==
    /\ prod2.pc = "check_full"
    /\ prod2' = IF prod2.next_tail = head_
                THEN [prod2 EXCEPT !.pc = "idle", !.ret = FALSE]
                ELSE [prod2 EXCEPT !.pc = "construct"]
    /\ UNCHANGED <<chanVars, prodVars, consVars, histVars, benchVars>>
    /\ UNCHANGED <<hintVars, capVars, sameTailLoaded>>

\* new (&buffer_[current_tail]) T(std::forward<U>(item));
try_push2_construct ==
    /\ prod2.pc = "construct"
    /\ buffer_' = [buffer_ EXCEPT ![prod2.current_tail] =
                       [st |-> "constructed", val |-> prod2.item]]
    /\ prod2' = [prod2 EXCEPT !.pc = "store_tail"]
    /\ UNCHANGED <<head_, tail_, freed>>
    /\ UNCHANGED <<prodVars, consVars, histVars, benchVars>>
    /\ UNCHANGED <<hintVars, capVars, sameTailLoaded>>

\* tail_.store(next_tail, release); return true;
try_push2_store_tail ==
    /\ prod2.pc = "store_tail"
    /\ tail_' = prod2.next_tail
    /\ prod2' = [prod2 EXCEPT !.pc = "idle", !.ret = TRUE]
    /\ pushed' = Append(pushed, prod2.item)
    /\ UNCHANGED <<head_, buffer_, freed>>
    /\ UNCHANGED <<popped, callLog>>
    /\ UNCHANGED <<prodVars, consVars, benchVars>>
    /\ UNCHANGED <<hintVars, capVars, sameTailLoaded>>

\* pushes accepted or in progress
PushesStarted ==
    Len(pushed) + (IF pPc # "idle" THEN 1 ELSE 0)
                + (IF prod2.pc # "idle" THEN 1 ELSE 0)

PushA ==
    /\ PushesStarted < TwoMaxPushes
    /\ Push

PushB ==
    /\ PushesStarted < TwoMaxPushes
    /\ \E x \in Items : try_push2_load_tail(x)

Producer2Step ==
    \/ try_push2_check_full
    \/ try_push2_construct
    \/ try_push2_store_tail

\* the consumer's try_pop call; a run observes at most TwoMaxPushes items
\* (a tail_ stored backwards by the second producer lets head_ run past it)
PopTwo ==
    /\ Len(popped) < TwoMaxPushes
    /\ Pop

NextTwo ==
    \/ PushA
    \/ PushB
    \/ PopTwo
    \/ ProducerStep
    \/ Producer2Step
    \/ ConsumerStep

SpecTwo == Init /\ [][NextTwo]_vars

(* ---------------------------------------------------------------------- *)
(* Properties                                                              *)
(* ---------------------------------------------------------------------- *)
IsPrefix(s, t) ==
    /\ Len(s) <= Len(t)
    /\ \A i \in 1 .. Len(s) : s[i] = t[i]

\* slots in the published range [head_, tail_), indices mod Capacity
Published ==
    {(head_ + k) % Capacity : k \in 0 .. (((tail_ - head_) % Capacity) - 1)}

\* the producer / the consumer takes a step of try_push / try_pop
ProducerMoves == pPc' # pPc \/ pSteps' # pSteps
ConsumerMoves == cPc' # cPc \/ cSteps' # cSteps

\* C1: with one producer and one consumer, under every interleaving of
\* their steps, the values delivered by successful try_pop calls are a
\* prefix of the values accepted by successful try_push calls (same order,
\* nothing delivered twice, nothing skipped).
C1_FifoPrefix == IsPrefix(popped, pushed)

\* every accepted item delivered while the cursors wrapped, with the
\* producer inside a call, and the delivered values not all equal
C1_Witness ==
    /\ Len(popped) > Capacity
    /\ popped = pushed
    /\ popped[1] # popped[2]
    /\ cPc # "idle"

\* C2 (as stated): in every reachable state every slot in the published
\* range [head_, tail_) holds a constructed element, and try_pop never
\* moves out of a slot that is not constructed.
C2_PublishedConstructed_Original ==
    /\ \A i \in Published : buffer_[i].st # "raw"
    /\ cPc = "move" => buffer_[current_head].st # "raw"

\* C2 (amended): every slot in the published range [head_, tail_) holds a
\* constructed element, except the slot at head_ once the try_pop in
\* progress has destructed it and has not stored the new head_ yet;
\* try_pop never moves out of a slot that is not constructed.
C2_PublishedConstructed ==
    /\ \A i \in Published :
          \/ buffer_[i].st # "raw"
          \/ /\ i = head_
             /\ i = current_head
             /\ cPc = "store_head"
    /\ cPc = "move" => buffer_[current_head].st = "constructed"

\* the consumer is about to move out of a slot published by a push that
\* completed after the consumer loaded head_, the cursors having wrapped
C2_Witness ==
    /\ cPc = "move"
    /\ buffer_[current_head].st = "constructed"
    /\ Len(pushed) >= Capacity
    /\ pPc = "store_tail"

\* C3: in every reachable state the number of slots holding a live element
\* (constructed and not yet destructed, the slot constructed by a try_push
\* whose tail store is still to come included) is at most Capacity - 1.
C3_LiveBound == Cardinality(LiveSlots) <= Capacity - 1

\* Capacity - 1 live slots, one of them not published yet
C3_Witness ==
    /\ Cardinality(LiveSlots) = Capacity - 1
    /\ pPc = "store_tail"

\* C4: a try_push that finds the buffer full ((tail + 1) mod N equal to the
\* head it reads) returns false and changes nothing: no step of that call
\* changes head_, tail_ or a slot, the item is not moved from and nothing
\* is accepted.
C4_PushFullNoChange ==
    [][ /\ (ProducerMoves /\ pPc \in {"idle", "check_full"})
           => /\ UNCHANGED <<head_, tail_, buffer_, pushed>>
              /\ itemMoved' = FALSE
        /\ (ProducerMoves /\ pPc = "check_full" /\ next_tail = head_)
           => /\ pPc' = "idle"
              /\ pRet' = FALSE
              /\ item' = item
        /\ (ProducerMoves /\ pPc' = "idle" /\ pRet' = FALSE)
           => /\ pPc = "check_full"
              /\ next_tail = head_ ]_vars

\* try_push has just returned false on a channel holding Capacity - 1 items
C4_Witness ==
    /\ pPc = "idle"
    /\ pRet = FALSE
    /\ callLog = "push"
    /\ Cardinality(LiveSlots) = Capacity - 1
    /\ Len(pushed) - Len(popped) = Capacity - 1
    /\ itemMoved = FALSE

\* C5: a try_pop that finds the buffer empty (head equal to the tail it
\* reads) returns false and changes nothing: no step of that call changes
\* head_, tail_, a slot or out_item, and nothing is delivered.
C5_PopEmptyNoChange ==
    [][ /\ (ConsumerMoves /\ cPc \in {"idle", "check_empty"})
           => UNCHANGED <<head_, tail_, buffer_, out_item, popped>>
        /\ (ConsumerMoves /\ cPc = "check_empty" /\ current_head = tail_)
           => /\ cPc' = "idle"
              /\ cRet' = FALSE
        /\ (ConsumerMoves /\ cPc' = "idle" /\ cRet' = FALSE)
           => /\ cPc = "check_empty"
              /\ current_head = tail_ ]_vars

\* try_pop has just returned false on a drained channel; out_item still
\* holds the value of the previous successful pop
C5_Witness ==
    /\ cPc = "idle"
    /\ cRet = FALSE
    /\ callLog = "pop"
    /\ head_ = tail_
    /\ Len(popped) > 0
    /\ out_item = popped[Len(popped)]

\* items accepted and not yet delivered
Held == Len(pushed) - Len(popped)

LastCallPush == callLog \in {"push", "push_on_empty"}
LastCallPop  == callLog \in {"pop", "pop_after_push_on_empty"}

\* C6: driven from a single thread, try_pop succeeds exactly when at least
\* one item is held and try_push succeeds exactly when fewer than
\* Capacity - 1 items are held (the number held when the call was made is
\* the number held now, corrected by the call's own effect).
C6_SeqBoundary ==
    (pPc = "idle" /\ cPc = "idle") =>
        /\ Held \in 0 .. (Capacity - 1)
        /\ LastCallPop =>
              (cRet <=> (IF cRet THEN Held + 1 ELSE Held) > 0)
        /\ LastCallPush =>
              (pRet <=> (IF pRet THEN Held - 1 ELSE Held) < Capacity - 1)

\* Capacity - 1 pushes filled the channel, one pop made room and the push
\* that followed was accepted
C6_Witness ==
    /\ pPc = "idle"
    /\ cPc = "idle"
    /\ LastCallPush
    /\ pRet
    /\ Len(pushed) = Capacity
    /\ Len(popped) = 1
    /\ head_ = 1
    /\ tail_ = 0

\* C7: round trip.  From any empty channel state, a successful try_push(x)
\* immediately followed by try_pop(out) on the same thread returns true,
\* leaves out equal to x and the channel empty again.
C7_RoundTrip ==
    (callLog = "pop_after_push_on_empty" /\ cPc = "idle" /\ pRet) =>
        /\ cRet
        /\ out_item = item
        /\ head_ = tail_
        /\ LiveSlots = {}

\* a round trip completed from an empty state other than the initial one,
\* the cursors having wrapped
C7_Witness ==
    /\ callLog = "pop_after_push_on_empty"
    /\ cPc = "idle"
    /\ pRet
    /\ cRet
    /\ out_item = item
    /\ Len(popped) > Capacity
    /\ head_ = tail_

\* C8: after the destructor has run, no slot holds a live element (every
\* element constructed by try_push and not consumed by try_pop has been
\* destructed before the buffer memory is released).
C8_TeardownDestructsLive == freed => LiveSlots = {}

\* C9: when the consumer of bench_ring_buffer leaves its loop it has
\* observed exactly 0 .. BenchM-1 in ascending order.
C9_BenchAllObserved ==
    benchC = "exited" => popped = [i \in 1 .. BenchM |-> i - 1]

\* positions of a thread inside try_push / try_pop; each is left by one step
PushPositions == {"idle", "check_full", "construct", "store_tail"}
PopPositions  == {"idle", "check_empty", "move", "destruct", "store_head"}

PushMaxSteps == Cardinality(PushPositions)
PopMaxSteps  == Cardinality(PopPositions)

\* C10: try_push and try_pop are wait-free.  A call never takes more than
\* a fixed number of its own steps, and a thread inside a call can always
\* take its next step, whatever the position of the other thread.
C10_WaitFree ==
    /\ pPc \in PushPositions
    /\ cPc \in PopPositions
    /\ pSteps <= PushMaxSteps
    /\ cSteps <= PopMaxSteps
    /\ pPc # "idle" => ENABLED ProducerStep
    /\ cPc # "idle" => ENABLED ConsumerStep
    /\ pPc = "idle" /\ ~freed => ENABLED try_push_load_tail(0)
    /\ cPc = "idle" /\ ~freed => ENABLED try_pop_load_head

\* the producer is at its last step on a full channel while the consumer
\* is stopped in the middle of a try_pop
C10_Witness ==
    /\ pPc = "store_tail"
    /\ pSteps = PushMaxSteps - 1
    /\ cPc = "destruct"
    /\ cSteps = 3
    /\ Cardinality(LiveSlots) = Capacity - 1

\* C11: cursor ownership.  No step of try_push, successful or not, writes
\* head_, and no step of try_pop, successful or not, writes tail_.
C11_CursorOwnership ==
    [][ /\ ProducerMoves => head_' = head_
        /\ ConsumerMoves => tail_' = tail_ ]_vars

\* both threads are about to store their own cursor, after a try_push has
\* failed on a full channel
C11_Witness ==
    /\ pPc = "store_tail"
    /\ cPc = "store_head"
    /\ head_ # 0
    /\ tail_ # head_
    /\ Len(pushed) >= Capacity

\* a step of prefetch_next
PrefetchMoves == prefetched' # prefetched

\* everything try_push and try_pop read or write
CallState == <<chanVars, prodVars, consVars, histVars>>

\* C12: prefetch_next is advisory only.  Called at any point and any number
\* of times it leaves head_, tail_, every slot and everything else that
\* try_push and try_pop read unchanged, and the calls interleaved with it
\* behave as without it: what they deliver is still a prefix of what was
\* accepted, and they fail exactly on a full, respectively empty, channel.
C12_PrefetchAdvisory ==
    /\ [][ PrefetchMoves => UNCHANGED CallState ]_vars
    /\ [] IsPrefix(popped, pushed)
    /\ [][ /\ (ProducerMoves /\ pPc = "check_full")
              => ((pPc' = "idle" /\ pRet' = FALSE) <=> Held = Capacity - 1)
           /\ (ConsumerMoves /\ cPc = "check_empty")
              => ((cPc' = "idle" /\ cRet' = FALSE) <=> Held = 0) ]_vars

\* a hint was issued while a try_pop was in progress, and pushes and pops
\* went on after it until the cursors wrapped
C12_Witness ==
    /\ prefetched # NoVal
    /\ prefetched # NextIndex(head_)
    /\ Len(popped) > Capacity
    /\ popped = pushed
    /\ cPc = "idle"
    /\ cRet = FALSE

RECURSIVE IsPowerOfTwo(_)
IsPowerOfTwo(n) ==
    \/ n = 1
    \/ n > 1 /\ n % 2 = 0 /\ IsPowerOfTwo(n \div 2)

\* C13: the capacity check accepts N exactly when N >= 2 and N is a power
\* of two, for every N in a bounded range including 0 and 1.
C13_CapacityCheck ==
    capResult # "unchecked" =>
        ((capResult = "accepted") <=> (capN >= 2 /\ IsPowerOfTwo(capN)))

\* the life of a slot: raw memory, constructed by try_push, moved out of
\* by try_pop, destructed by try_pop
SlotCycle ==
    {<<"raw", "constructed">>, <<"constructed", "moved">>, <<"moved", "raw">>}

\* C14: slot lifecycle.  Each slot strictly alternates construct (by
\* try_push) and destruct (by try_pop): try_push never constructs into a
\* slot that holds a live element, try_pop never destructs a slot that
\* holds none, and the slot a successful try_pop read is destructed before
\* the new head_ is stored.
C14_SlotLifecycle ==
    /\ [] /\ pPc = "construct" => buffer_[current_tail].st = "raw"
          /\ cPc = "destruct" => buffer_[current_head].st = "moved"
          /\ cPc = "store_head" => buffer_[current_head].st = "raw"
    /\ [][ \A i \in Slots :
             buffer_'[i] # buffer_[i] =>
                /\ <<buffer_[i].st, buffer_'[i].st>> \in SlotCycle
                /\ buffer_'[i].st = "constructed"
                      => ProducerMoves /\ i = current_tail
                /\ buffer_'[i].st # "constructed"
                      => ConsumerMoves /\ i = current_head ]_vars

\* the producer is about to construct into slot 0 for the second time
\* while the consumer is about to destruct another slot
C14_Witness ==
    /\ pPc = "construct"
    /\ current_tail = 0
    /\ Len(pushed) = Capacity
    /\ buffer_[0].st = "raw"
    /\ cPc = "destruct"
    /\ buffer_[current_head].st = "moved"

\* the producer is between its load of head_ and its store of tail_
ProducerInSlot == pPc \in {"construct", "store_tail"}

\* the consumer is between its load of tail_ and its store of head_
ConsumerInSlot == cPc \in {"move", "destruct", "store_head"}

\* C15: no slot data race.  There is no reachable state in which the
\* producer is between its head load and its tail store while the consumer
\* is between its tail load and its head store and both work on the same
\* slot index.
C15_NoSlotRace ==
    (ProducerInSlot /\ ConsumerInSlot) => current_tail # current_head

\* both threads are inside a slot at the same time, as close as they can
\* get: the producer constructs the slot two before the one being moved out
C15_Witness ==
    /\ pPc = "construct"
    /\ cPc = "move"
    /\ NextIndex(next_tail) = current_head
    /\ Len(pushed) >= Capacity

\* C16: failures are never spurious with respect to the moment of the
\* cursor read, and a stale view never becomes a wrong success.  try_push
\* returns false only if Capacity - 1 items are published at the step that
\* loads head_, try_pop returns false only if none is published at the step
\* that loads tail_; a try_push that goes on has fewer than Capacity - 1
\* items published up to its return, a try_pop that goes on at least one.
C16_NoSpuriousResult ==
    /\ [][ /\ (ProducerMoves /\ pPc' = "idle" /\ pRet' = FALSE)
              => (pPc = "check_full" /\ Held = Capacity - 1)
           /\ (ConsumerMoves /\ cPc' = "idle" /\ cRet' = FALSE)
              => (cPc = "check_empty" /\ Held = 0)
           /\ (ProducerMoves /\ pPc' = "idle" /\ pRet' = TRUE)
              => Held < Capacity - 1
           /\ (ConsumerMoves /\ cPc' = "idle" /\ cRet' = TRUE)
              => Held > 0 ]_vars
    /\ [] /\ ProducerInSlot => Held < Capacity - 1
          /\ ConsumerInSlot => Held > 0

\* try_push has returned false on a full channel and try_pop false on an
\* empty one; since the failed try_push the consumer has made room
C16_Witness ==
    /\ pPc = "idle"
    /\ pRet = FALSE
    /\ Len(pushed) = Capacity - 1
    /\ Held = 0
    /\ cPc = "idle"
    /\ cRet = FALSE

\* C17: progress under busy-polling.  With both threads scheduled fairly,
\* every item the producer retries is eventually accepted and every
\* accepted item is eventually returned by a try_pop, in its place.
C17_PollingProgress ==
    /\ \A k \in 0 .. (BenchM - 1) :
          (benchP = "l74" /\ bi = k) ~> (Len(pushed) > k)
    /\ \A k \in 1 .. BenchM :
          (Len(pushed) >= k) ~> (Len(popped) >= k /\ popped[k] = k - 1)

\* the producer has just been refused on a full channel and is about to
\* retry the same item
C17_Witness ==
    /\ benchP = "l74"
    /\ pPc = "idle"
    /\ pRet = FALSE
    /\ bi >= Capacity - 1
    /\ Held = Capacity - 1
    /\ cPc = "idle"
    /\ cRet = FALSE

\* (c + 1) & (N - 1) = (c + 1) mod N for every power of two N and every
\* cursor value c of a channel of capacity N
MaskIsModulo ==
    \A k \in 0 .. MaxMaskLog2 :
        \A c \in 0 .. (Pow2(k) - 1) :
            BitAnd(c + 1, Pow2(k) - 1) = (c + 1) % Pow2(k)

\* C18: cursor arithmetic.  The mask computes the successor modulo N, so
\* head_ and tail_ stay in 0 .. Capacity-1, a successful try_push advances
\* tail_ by exactly one position mod Capacity, a successful try_pop
\* advances head_ by exactly one position mod Capacity, and no other step
\* moves a cursor.
C18_CursorArithmetic ==
    /\ [] /\ MaskIsModulo
          /\ head_ \in Slots
          /\ tail_ \in Slots
    /\ [][ /\ (ProducerMoves /\ pPc' = "idle" /\ pRet' = TRUE)
              => tail_' = (tail_ + 1) % Capacity
           /\ (ProducerMoves /\ ~(pPc' = "idle" /\ pRet' = TRUE))
              => tail_' = tail_
           /\ (ConsumerMoves /\ cPc' = "idle" /\ cRet' = TRUE)
              => head_' = (head_ + 1) % Capacity
           /\ (ConsumerMoves /\ ~(cPc' = "idle" /\ cRet' = TRUE))
              => head_' = head_
           /\ (~ProducerMoves /\ ~ConsumerMoves)
              => UNCHANGED <<head_, tail_>> ]_vars

\* tail_ has wrapped from Capacity-1 to 0 and head_ is about to
C18_Witness ==
    /\ tail_ = 0
    /\ Len(pushed) = Capacity
    /\ pPc = "idle"
    /\ pRet
    /\ head_ = Capacity - 1
    /\ cPc = "store_head"

\* no call is in progress
Quiescent == pPc = "idle" /\ prod2.pc = "idle" /\ cPc = "idle"

\* items between the cursors
PublishedCount == (tail_ - head_) % Capacity

\* an accepted item was overwritten, reordered or lost
GuaranteesBroken ==
    \/ ~IsPrefix(popped, pushed)
    \/ Quiescent /\ Held # PublishedCount

\* two overlapping try_push calls loaded the same tail_, constructed into
\* the same slot and both returned true
SameSlotAccepted ==
    /\ Quiescent
    /\ sameTailLoaded
    /\ pRet
    /\ prod2.ret
    /\ current_tail = prod2.current_tail

\* C19: misuse by two producers breaks the guarantees.  With two threads
\* calling try_push, once both have loaded the same tail_, constructed
\* into the same slot and returned true, an accepted item is overwritten
\* or lost and the no-loss / FIFO property of the single-producer case no
\* longer holds; it fails only after two calls loaded the same tail_.
\* (That such a state is reachable is C19_Witness.)
C19_TwoProducersBreak ==
    /\ SameSlotAccepted => GuaranteesBroken
    /\ GuaranteesBroken => sameTailLoaded

\* both threads loaded the same tail_, constructed into the same slot and
\* returned true; the consumer then received the second item in place of
\* the first, which was overwritten
C19_Witness ==
    /\ sameTailLoaded
    /\ Quiescent
    /\ pRet
    /\ prod2.ret
    /\ current_tail = prod2.current_tail
    /\ Len(pushed) = 2
    /\ pushed[1] # pushed[2]
    /\ popped = <<pushed[2]>>
    /\ buffer_[current_tail].st = "raw"
    /\ head_ = tail_

\* C20: prefetch_next hints the slot the consumer is about to touch next.
\* In whatever state it is called, the slot index it prefetches is the
\* index of the slot the next try_pop will read, the slot at head_.
C20_PrefetchesHeadSlot ==
    [][ PrefetchMoves => prefetched' = head_ ]_vars

====
